---- MODULE Spec2Model ----
(***************************************************************************)
(* Model of cb-arr-discord: the !radarr chat command (main.py) and the     *)
(* Radarr wrapper (radarr.py).  The remote Radarr service is the only      *)
(* state: its movie list and its tag list.  A text is modelled by its      *)
(* structure: a listing is a sequence of lines, a line is the record of    *)
(* the values formatted into it, and the length of a text is computed from *)
(* the format strings of the source.                                       *)
(***************************************************************************)
EXTENDS Integers, Sequences, FiniteSets, TLC

VARIABLES
    movies,           \* remote: the library, in the order api.get_movie() returns it
    tags,             \* remote: the tag list, in the order api.get_tag() returns it
    ratio,            \* the fuzzy scorer: query -> title -> 0..100
    discord_channel,  \* VARS.discord_channel (None when unset)
    cmd,              \* last message: the sub-command word (NoCmd when absent)
    user,             \* last message: the ctx.author.name handed to the wrapper ("" when none is)
    args,             \* last message: the trailing words
    route,            \* last message: the branch of radarr() taken
    out,              \* last message: the texts sent, in order
    error,            \* last message: the exception that escaped the handler
    calls,            \* last message: number of remote API calls made
    tag_id,           \* last message: the tag id _lookup_user_tag_id returned
    lookup,           \* last message: what api.lookup_movie returned (add, search)
    all_movies,       \* last message: list/me's all_movies after the filter or sort
    pre,              \* remote state before the last message
    prev,             \* the message before the last, kept when it was a successful tag
    created           \* label -> number of api.create_tag calls made for it

vars == <<movies, tags, ratio, discord_channel, cmd, user, args, route, out,
          error, calls, tag_id, lookup, all_movies, pre, prev, created>>

----------------------------------------------------------------------------
(* Bounds of the model *)

MaxMovies == 12
NumRatioTables == 2

(* Program constants *)

ChunkLimit == 1800
TopN == 10
IdWidth == 7

None == 0 - 1
NoCmd == "<none>"
NoChannel == "<unset>"
NoError == "ok"

Users == {"alice", "bob"}
Channels == {"movies", "general"}

Max(a, b) == IF a >= b THEN a ELSE b
Min(a, b) == IF a <= b THEN a ELSE b

RECURSIVE NumDigits(_)
NumDigits(n) == IF n < 10 THEN 1 ELSE 1 + NumDigits(n \div 10)

RECURSIVE SumSeq(_)
SumSeq(s) == IF s = <<>> THEN 0 ELSE Head(s) + SumSeq(Tail(s))

(* the elements of s at the indices idx, in order *)
SelectIdx(s, idx) ==
    LET Nth(p) == CHOOSE i \in idx : Cardinality({j \in idx : j < i}) = p - 1
    IN  [p \in 1..Cardinality(idx) |-> s[Nth(p)]]

----------------------------------------------------------------------------
(* The external movie catalog (TMDB) the remote service looks movies up    *)
(* in.  A title is a code whose numeric order is the order of the strings; *)
(* two catalog entries may share a title.                                   *)

(* The id a numeric word denotes (the remote service parses the word). *)
ParseId(w) ==
    CASE w = "1" -> 1
      [] w = "999" -> 999

CatalogIds == 1..MaxMovies

Title(id) == (id * 5) % 7
TitleCodes == 0..6
TitleLen(t) == 300 + (t % 3)
Year(id) == 1980 + (id % 45)
SizeOnDisk(id) == (id % 3) * 350000

Movie(id, tagset) ==
    [tmdbId |-> id, title |-> Title(id), year |-> Year(id),
     sizeOnDisk |-> SizeOnDisk(id), tags |-> tagset]

IdWords == {"1", "999"}
TitleWords == {<<"the", "w">>}
NoAuthor == ""

RECURSIVE Join(_)
Join(words) ==
    IF words = <<>> THEN ""
    ELSE IF Len(words) = 1 THEN words[1]
    ELSE words[1] \o " " \o Join(Tail(words))

Queries == {Join(w) : w \in TitleWords}

(* fuzz.partial_ratio(title, query): a deterministic score in 0..100.  The  *)
(* library is external; the model ranges over a family of score tables,     *)
(* one of them constant so that every pair of movies ties.                  *)
RatioTable(k) ==
    [q \in Queries |->
        [t \in TitleCodes |-> IF k = 1 THEN 50 ELSE (t * 37 * k + Len(q) * 13) % 101]]

partial_ratio(title, query) == ratio[query][title]

----------------------------------------------------------------------------
(* Texts *)

NoScore == None

Line(movie) ==
    [tmdbId |-> movie.tmdbId, title |-> movie.title, year |-> movie.year,
     fuzzy |-> IF "fuzzy_score" \in DOMAIN movie THEN movie.fuzzy_score ELSE NoScore]

(* len(f"{tmdbId:>7}: {title} ({year})") + len(f" (fuzzy score: {n})") *)
LineLen(l) ==
    Max(IdWidth, NumDigits(l.tmdbId)) + 2 + TitleLen(l.title) + 2 + NumDigits(l.year) + 1
    + (IF l.fuzzy = NoScore THEN 0 ELSE 15 + NumDigits(l.fuzzy) + 1)

movie_text_line(movie) == Line(movie)

(* len(text) of a listing: every line is followed by "\n" *)
TextLen(lines) == SumSeq([i \in 1..Len(lines) |-> LineLen(lines[i]) + 1])

Msg(kind, lines, nums, word) ==
    [kind |-> kind, lines |-> lines, nums |-> nums, word |-> word]

Listing(lines) == Msg("listing", lines, <<>>, "")
Text(kind, nums, word) == Msg(kind, <<>>, nums, word)

(* len(humanize.naturalsize(n)): "1 Byte", "<n> Bytes", "<x.y> kB", ... *)
RECURSIVE UnitOf(_)
UnitOf(n) == IF n < 1000000 THEN 1000 ELSE 1000 * UnitOf(n \div 1000)

NaturalSizeLen(n) ==
    IF n = 1 THEN 6
    ELSE IF n < 1000 THEN NumDigits(n) + 6
    ELSE LET tenths == (n * 10 + UnitOf(n) \div 2) \div UnitOf(n)
         IN  NumDigits(tenths \div 10) + 2 + 3

(* len() of the texts status, list, me and search yield *)
MsgLen(m) ==
    CASE m.kind = "listing" -> TextLen(m.lines)
      [] m.kind = "status" ->
            10 + NumDigits(m.nums[1]) + 18 + NaturalSizeLen(m.nums[2]) + 1
            + (IF m.nums[3] = 0 THEN 12
               ELSE 1 + NumDigits(m.nums[3]) + 20 + NaturalSizeLen(m.nums[4]) + 1)
      [] m.kind = "tag_hint" -> 50
      [] m.kind = "search_usage" -> 30
      [] m.kind = "search_none" -> 49

----------------------------------------------------------------------------
(* sorted(seq, key=...): stable; with reverse=True equal keys keep their   *)
(* original order too.  keys[i] is the key of seq[i].                       *)
Sorted(seq, keys, reverse) ==
    LET n == Len(seq)
        Before(j, i) == IF reverse THEN keys[j] > keys[i] ELSE keys[j] < keys[i]
        Rank(i) == 1 + Cardinality({j \in 1..n : Before(j, i) \/ (keys[j] = keys[i] /\ j < i)})
    IN  [p \in 1..n |-> seq[CHOOSE i \in 1..n : Rank(i) = p]]

SortedByTitle(ms) == Sorted(ms, [i \in 1..Len(ms) |-> ms[i].title], FALSE)

WithFuzzyScore(movie, score) ==
    [tmdbId |-> movie.tmdbId, title |-> movie.title, year |-> movie.year,
     sizeOnDisk |-> movie.sizeOnDisk, tags |-> movie.tags, fuzzy_score |-> score]

(* the ranking without reverse=True *)
_filter_movies_Ascending(ms, words) ==
    LET string_match == Join(words)
        keys == [i \in 1..Len(ms) |-> partial_ratio(ms[i].title, string_match)]
        ranked == Sorted(ms, keys, FALSE)
        top == SubSeq(ranked, 1, Min(TopN, Len(ranked)))
    IN  [i \in 1..Len(top) |->
            WithFuzzyScore(top[i], partial_ratio(top[i].title, string_match))]

_filter_movies(ms, words) ==
    LET string_match == Join(words)
        keys == [i \in 1..Len(ms) |-> partial_ratio(ms[i].title, string_match)]
        ranked == Sorted(ms, keys, TRUE)
        top == SubSeq(ranked, 1, Min(TopN, Len(ranked)))
    IN  [i \in 1..Len(top) |->
            WithFuzzyScore(top[i], partial_ratio(top[i].title, string_match))]

(* the loop without the length test *)
ChunkLoop_NeverYields(lines, text, yielded) ==
    [yielded |-> yielded, text |-> text \o lines]

(* The chunking loop of status, list, me and search: append a line, and    *)
(* yield the text once it is longer than the limit.                         *)
RECURSIVE ChunkLoop(_, _, _)
ChunkLoop(lines, text, yielded) ==
    IF lines = <<>> THEN [yielded |-> yielded, text |-> text]
    ELSE LET t == Append(text, Head(lines))
         IN  IF TextLen(t) > ChunkLimit
             THEN ChunkLoop(Tail(lines), <<>>, Append(yielded, Listing(t)))
             ELSE ChunkLoop(Tail(lines), t, yielded)

LinesOf(ms) == [i \in 1..Len(ms) |-> movie_text_line(ms[i])]

(* the loop without the yield after it *)
Chunks_NoFinalYield(ms) == ChunkLoop(LinesOf(ms), <<>>, <<>>).yielded

(* the loop followed by an unconditional "yield text" *)
Chunks(ms) ==
    LET r == ChunkLoop(LinesOf(ms), <<>>, <<>>)
    IN  Append(r.yielded, Listing(r.text))

(* the loop followed by "if text != '': yield text" *)
ChunksIfAny(ms) ==
    LET r == ChunkLoop(LinesOf(ms), <<>>, <<>>)
    IN  IF r.text # <<>> THEN Append(r.yielded, Listing(r.text)) ELSE r.yielded

----------------------------------------------------------------------------
(* The remote service, as the wrapper uses it *)

api_get_movie_tmdb(ms, id) == SelectIdx(ms, {i \in 1..Len(ms) : ms[i].tmdbId = id})

api_upd_movie(ms, movie) ==
    [i \in 1..Len(ms) |-> IF ms[i].tmdbId = movie.tmdbId THEN movie ELSE ms[i]]

(* the remote service numbers a new tag after the highest id in use *)
NextTagId(ts) ==
    LET ids == {ts[i].id : i \in 1..Len(ts)}
    IN  IF ids = {} THEN 1 ELSE 1 + (CHOOSE m \in ids : \A x \in ids : x <= m)

api_create_tag(ts, label) == Append(ts, [id |-> NextTagId(ts), label |-> label])

(* api.lookup_movie(term="tmdb:<id>"): one match for a catalog id; for an   *)
(* id the catalog does not know the client returns None or an empty list.   *)
NoResult == [none |-> TRUE, list |-> <<>>]
Result(list) == [none |-> FALSE, list |-> list]

LookupResults(id) ==
    IF id \in CatalogIds THEN {Result(<<Movie(id, {})>>)}
    ELSE {NoResult, Result(<<>>)}

(* api.lookup_movie(term=<title words>) *)
SearchResults ==
    {NoResult, Result(<<>>), Result([i \in 1..MaxMovies |-> Movie(i, {})])}

AlreadyAdded == "This movie has already been added"

api_add_movie(ms, movie, tagset) ==
    IF \E i \in 1..Len(ms) : ms[i].tmdbId = movie.tmdbId
    THEN [raised |-> TRUE, text |-> AlreadyAdded, movies |-> ms]
    ELSE [raised |-> FALSE, text |-> "",
          movies |-> Append(ms, Movie(movie.tmdbId, tagset))]

----------------------------------------------------------------------------
(* The wrapper: class Radarr.  A handler is an operator from the remote    *)
(* state and the command's inputs to the remote state it leaves and the    *)
(* texts it yields.                                                         *)

Res(ms, ts, o, e, c, tid, lk, am, cr) ==
    [movies |-> ms, tags |-> ts, out |-> o, error |-> e, calls |-> c,
     tag_id |-> tid, lookup |-> lk, all_movies |-> am, created |-> cr]

_get_tag_id(ts, label) ==
    LET hits == {i \in 1..Len(ts) : ts[i].label = label}
    IN  IF hits = {} THEN None
        ELSE ts[CHOOSE i \in hits : \A j \in hits : i <= j].id

(* the lookup without the first _get_tag_id *)
_lookup_user_tag_id_AlwaysCreates(ts, username) ==
    LET ts1 == api_create_tag(ts, username)
    IN  [tags |-> ts1, tag_id |-> _get_tag_id(ts1, username), calls |-> 2,
         created |-> <<username>>, error |-> NoError]

_lookup_user_tag_id(ts, username) ==
    LET first == _get_tag_id(ts, username)
        ts1 == IF first = None THEN api_create_tag(ts, username) ELSE ts
        second == _get_tag_id(ts1, username)
    IN  [tags |-> ts1, tag_id |-> second,
         calls |-> IF first = None THEN 3 ELSE 2,
         created |-> IF first = None THEN <<username>> ELSE <<>>,
         error |-> IF second = None THEN "ValueError" ELSE NoError]

status(ms, ts, words) ==
    LET untagged_movies == SelectIdx(ms, {i \in 1..Len(ms) : Cardinality(ms[i].tags) = 0})
        count == Len(ms)
        total_size == SumSeq([i \in 1..Len(ms) |-> ms[i].sizeOnDisk])
        untagged_size ==
            SumSeq([i \in 1..Len(untagged_movies) |-> untagged_movies[i].sizeOnDisk])
        untagged_count == Len(untagged_movies)
        headline == Text("status", <<count, total_size, untagged_count, untagged_size>>, "")
        more == IF Len(words) > 0 /\ words[1] = "+" /\ untagged_count > 0
                THEN Append(Chunks(untagged_movies), Text("tag_hint", <<>>, ""))
                ELSE <<>>
    IN  Res(ms, ts, <<headline>> \o more, NoError, 1, None, NoResult, <<>>, <<>>)

list(ms, ts, words) ==
    LET am == IF Len(words) > 0 THEN _filter_movies(ms, words) ELSE SortedByTitle(ms)
    IN  Res(ms, ts, Chunks(am), NoError, 1, None, NoResult, am, <<>>)

me(ms, ts, username, words) ==
    LET lk == _lookup_user_tag_id(ts, username)
        am == IF Len(words) > 0 THEN _filter_movies(ms, words) ELSE SortedByTitle(ms)
        mine == SelectIdx(am, {i \in 1..Len(am) : lk.tag_id \in am[i].tags})
    IN  IF lk.error # NoError
        THEN Res(ms, lk.tags, <<>>, lk.error, lk.calls, None, NoResult, <<>>, lk.created)
        ELSE Res(ms, lk.tags, ChunksIfAny(mine), NoError, lk.calls + 1, lk.tag_id,
                 NoResult, am, lk.created)

_get_movie_by_id(ms, movie_id) ==
    LET found == api_get_movie_tmdb(ms, ParseId(movie_id))
    IN  IF Len(found) = 0 \/ Len(found) > 1 THEN <<>> ELSE <<found[1]>>

TitleYear(movie) == <<movie.title, movie.year>>

(* movie["tags"].append(tag_id), movie["tags"].remove(tag_id) *)
AppendTag(tagset, id) == tagset \cup {id}

(* clearing the list instead of removing the one id *)
RemoveTag_Clears(tagset, id) == {}

RemoveTag(tagset, id) == tagset \ {id}

tag(ms, ts, username, words) ==
    LET lk == _lookup_user_tag_id(ts, username)
        R(m2, o, c) == Res(m2, lk.tags, o, NoError, lk.calls + c, lk.tag_id, NoResult,
                           <<>>, lk.created)
    IN  IF lk.error # NoError
        THEN Res(ms, lk.tags, <<>>, lk.error, lk.calls, None, NoResult, <<>>, lk.created)
        ELSE IF Len(words) = 0 THEN R(ms, <<Text("tag_usage", <<>>, "")>>, 0)
        ELSE LET movie == _get_movie_by_id(ms, words[1])
             IN  IF movie = <<>>
                 THEN R(ms, <<Text("not_identified", <<>>, words[1])>>, 1)
                 ELSE IF lk.tag_id \in movie[1].tags
                 THEN R(ms, <<Text("already_tagged", TitleYear(movie[1]), "")>>, 1)
                 ELSE LET upd == [movie[1] EXCEPT !.tags = AppendTag(@, lk.tag_id)]
                      IN  R(api_upd_movie(ms, upd),
                            <<Text("tagged", TitleYear(upd), "")>>, 2)

untag(ms, ts, username, words) ==
    LET lk == _lookup_user_tag_id(ts, username)
        R(m2, o, c) == Res(m2, lk.tags, o, NoError, lk.calls + c, lk.tag_id, NoResult,
                           <<>>, lk.created)
    IN  IF lk.error # NoError
        THEN Res(ms, lk.tags, <<>>, lk.error, lk.calls, None, NoResult, <<>>, lk.created)
        ELSE IF Len(words) = 0 THEN R(ms, <<Text("untag_usage", <<>>, "")>>, 0)
        ELSE LET movie == _get_movie_by_id(ms, words[1])
             IN  IF movie = <<>>
                 THEN R(ms, <<Text("not_identified", <<>>, words[1])>>, 1)
                 ELSE IF lk.tag_id \notin movie[1].tags
                 THEN R(ms, <<Text("not_tagged", TitleYear(movie[1]), "")>>, 1)
                 ELSE LET upd == [movie[1] EXCEPT !.tags = RemoveTag(@, lk.tag_id)]
                      IN  R(api_upd_movie(ms, upd),
                            <<Text("untagged", TitleYear(upd), "")>>, 2)

search(ms, ts, words, found) ==
    IF Len(words) = 0
    THEN Res(ms, ts, <<Text("search_usage", <<>>, "")>>, NoError, 0, None, NoResult,
             <<>>, <<>>)
    ELSE IF found.none
    THEN Res(ms, ts, <<Text("search_none", <<>>, "")>>, NoError, 1, None, found, <<>>, <<>>)
    ELSE Res(ms, ts, Chunks(found.list), NoError, 1, None, found, <<>>, <<>>)

(* api.add_movie without the except clause *)
TryAdd_NoCatch(ms, movie, tagset) ==
    LET added == api_add_movie(ms, movie, tagset)
    IN  IF ~added.raised
        THEN [movies |-> added.movies, error |-> NoError,
              out |-> <<Text("added", TitleYear(movie), "")>>]
        ELSE [movies |-> ms, error |-> "PyarrBadRequest", out |-> <<>>]

(* the try/except around api.add_movie *)
TryAdd(ms, movie, tagset) ==
    LET added == api_add_movie(ms, movie, tagset)
    IN  IF ~added.raised
        THEN [movies |-> added.movies, error |-> NoError,
              out |-> <<Text("added", TitleYear(movie), "")>>]
        ELSE IF added.text = AlreadyAdded
        THEN [movies |-> ms, error |-> NoError,
              out |-> <<Text("already_added", TitleYear(movie), "")>>]
        ELSE [movies |-> ms, error |-> NoError,
              out |-> <<Text("add_error", <<>>, added.text)>>]

add_movie(ms, ts, username, words, found) ==
    IF Len(words) = 0
    THEN Res(ms, ts, <<Text("add_usage", <<>>, "")>>, NoError, 0, None, NoResult,
             <<>>, <<>>)
    ELSE IF found.none
    THEN Res(ms, ts, <<Text("add_none", <<>>, words[1])>>, NoError, 1, None, found,
             <<>>, <<>>)
    ELSE IF Len(found.list) > 1
    THEN Res(ms, ts, <<Text("add_multiple", <<>>, words[1])>>, NoError, 1, None, found,
             <<>>, <<>>)
    ELSE IF Len(found.list) = 0
    THEN \* movie[0] on an empty list
         Res(ms, ts, <<>>, "IndexError", 1, None, found, <<>>, <<>>)
    ELSE LET movie == found.list[1]
             \* get_root_folder, get_quality_profile: two more calls, no effect
             lk == _lookup_user_tag_id(ts, username)
             added == TryAdd(ms, movie, {lk.tag_id})
         IN  IF lk.error # NoError
             THEN Res(ms, lk.tags, <<>>, lk.error, 3 + lk.calls, None, found, <<>>,
                      lk.created)
             ELSE Res(added.movies, lk.tags, added.out, added.error,
                      3 + lk.calls + 1, lk.tag_id, found, <<>>, lk.created)

(* radarr_help_text *)
help == Res(movies, tags, <<Text("help", <<>>, "")>>, NoError, 0, None, NoResult, <<>>, <<>>)

----------------------------------------------------------------------------
(* The command router: radarr() of main.py *)

CmdWords ==
    {NoCmd, "help", "status", "list", "me", "tag", "untag", "search", "add",
     "bogus", "Status"}

(* the channel restriction *)
Ignored(channel) == discord_channel # NoChannel /\ channel # discord_channel

(* the chain without the default to status *)
Dispatch_NoDefault(c) ==
    IF c \in {"help", "status", "list", "me", "tag", "untag", "search", "add"}
    THEN c ELSE "unknown"

(* the if/elif chain on cmd *)
Dispatch(c) ==
    LET c1 == IF c = NoCmd THEN "status" ELSE c
    IN  IF c1 = "help" THEN "help"
        ELSE IF c1 = "status" THEN "status"
        ELSE IF c1 = "list" THEN "list"
        ELSE IF c1 = "me" THEN "me"
        ELSE IF c1 = "tag" THEN "tag"
        ELSE IF c1 = "untag" THEN "untag"
        ELSE IF c1 = "search" THEN "search"
        ELSE IF c1 = "add" THEN "add"
        ELSE "unknown"

NoPrev == [user |-> NoAuthor, args |-> <<>>, movies |-> <<>>]

RECURSIVE CountOf(_, _)
CountOf(s, x) ==
    IF s = <<>> THEN 0 ELSE (IF Head(s) = x THEN 1 ELSE 0) + CountOf(Tail(s), x)

(* One message handled: the remote state the handler leaves, what it sent,  *)
(* and the record of the message.                                           *)
Handle(c, u, a, r, R) ==
    /\ movies' = R.movies
    /\ tags' = R.tags
    /\ out' = R.out
    /\ error' = R.error
    /\ calls' = R.calls
    /\ tag_id' = R.tag_id
    /\ lookup' = R.lookup
    /\ all_movies' = R.all_movies
    /\ cmd' = c
    /\ user' = u
    /\ args' = a
    /\ route' = r
    /\ pre' = [movies |-> movies, tags |-> tags]
    /\ prev' = IF route = "tag" /\ out # <<>> /\ out[1].kind = "tagged"
               THEN [user |-> user, args |-> args, movies |-> pre.movies]
               ELSE NoPrev
    /\ created' = [l \in Users |-> created[l] + CountOf(R.created, l)]
    /\ UNCHANGED <<ratio, discord_channel>>

(* a message that passes the channel restriction and takes branch r; the   *)
(* sub-command word is the first word, so without it there are no args      *)
Accepted(c, a, r) ==
    /\ \E ch \in Channels : ~Ignored(ch)
    /\ c = NoCmd => a = <<>>
    /\ Dispatch(c) = r

Ignore ==
    \E ch \in Channels, c \in CmdWords :
        /\ Ignored(ch)
        /\ Handle(c, NoAuthor, <<>>, "ignored",
                  Res(movies, tags, <<>>, NoError, 0, None, NoResult, <<>>, <<>>))

Help ==
    \E c \in CmdWords :
        Accepted(c, <<>>, "help") /\ Handle(c, NoAuthor, <<>>, "help", help)

Status ==
    \E c \in CmdWords, a \in {<<>>, <<"+">>} :
        /\ Accepted(c, a, "status")
        /\ Handle(c, NoAuthor, a, "status", status(movies, tags, a))

List ==
    \E c \in CmdWords, a \in {<<>>} \cup TitleWords :
        /\ Accepted(c, a, "list")
        /\ Handle(c, NoAuthor, a, "list", list(movies, tags, a))

Me ==
    \E u \in Users, c \in CmdWords, a \in {<<>>} \cup TitleWords :
        /\ Accepted(c, a, "me")
        /\ Handle(c, u, a, "me", me(movies, tags, u, a))

Tag ==
    \E u \in Users, c \in CmdWords, a \in {<<>>} \cup {<<w>> : w \in IdWords} :
        /\ Accepted(c, a, "tag")
        /\ Handle(c, u, a, "tag", tag(movies, tags, u, a))

Untag ==
    \E u \in Users, c \in CmdWords, a \in {<<>>} \cup {<<w>> : w \in IdWords} :
        /\ Accepted(c, a, "untag")
        /\ Handle(c, u, a, "untag", untag(movies, tags, u, a))

Search ==
    \E c \in CmdWords, a \in {<<>>} \cup TitleWords :
        /\ Accepted(c, a, "search")
        /\ \E found \in (IF a = <<>> THEN {NoResult} ELSE SearchResults) :
              Handle(c, NoAuthor, a, "search", search(movies, tags, a, found))

Add ==
    \E u \in Users, c \in CmdWords, a \in {<<>>} \cup {<<w>> : w \in IdWords} :
        /\ Accepted(c, a, "add")
        /\ \E found \in (IF a = <<>> THEN {NoResult} ELSE LookupResults(ParseId(a[1]))) :
              Handle(c, u, a, "add", add_movie(movies, tags, u, a, found))

Unknown ==
    \E c \in CmdWords :
        /\ Accepted(c, <<>>, "unknown")
        /\ Handle(c, NoAuthor, <<>>, "unknown",
                  Res(movies, tags, <<Text("unknown", <<>>, c)>>, NoError, 0, None,
                      NoResult, <<>>, <<>>))

----------------------------------------------------------------------------
(* The states the remote service can be in when the bot starts *)

LibSizes == {0, MaxMovies}

(* p = 1: no tag yet; p = 2: a tag of the operator's and alice's tag exist, *)
(* alice has claimed every other movie                                      *)
InitTags(p) ==
    IF p = 1 THEN <<>>
    ELSE <<[id |-> 1, label |-> "4k"], [id |-> 2, label |-> "alice"]>>

InitMovieTags(p, i) ==
    IF p = 1 THEN {}
    ELSE (IF i % 2 = 1 THEN {2} ELSE {}) \cup (IF i % 3 = 0 THEN {1} ELSE {})

Init ==
    /\ \E n \in LibSizes, p \in 1..2 :
          /\ movies = [i \in 1..n |-> Movie(i, InitMovieTags(p, i))]
          /\ tags = InitTags(p)
    /\ ratio \in {RatioTable(k) : k \in 1..NumRatioTables}
    /\ discord_channel \in {NoChannel, "movies"}
    /\ cmd = NoCmd
    /\ user = NoAuthor
    /\ args = <<>>
    /\ route = "start"
    /\ out = <<>>
    /\ error = NoError
    /\ calls = 0
    /\ tag_id = None
    /\ lookup = NoResult
    /\ all_movies = <<>>
    /\ pre = [movies |-> <<>>, tags |-> <<>>]
    /\ prev = NoPrev
    /\ created = [l \in Users |-> 0]

Next ==
    \/ Ignore
    \/ Help
    \/ Status
    \/ List
    \/ Me
    \/ Tag
    \/ Untag
    \/ Search
    \/ Add
    \/ Unknown

Spec == Init /\ [][Next]_vars

----------------------------------------------------------------------------
(* Properties *)

RECURSIVE ConcatLines(_)
ConcatLines(msgs) ==
    IF msgs = <<>> THEN <<>> ELSE Head(msgs).lines \o ConcatLines(Tail(msgs))

Range(f) == {f[i] : i \in DOMAIN f}
Ids(ms) == {ms[i].tmdbId : i \in 1..Len(ms)}
HasTag(ts, label, id) == \E i \in 1..Len(ts) : ts[i].label = label /\ ts[i].id = id
Listers == {"status", "list", "me", "search"}
Score(movie) == partial_ratio(movie.title, Join(args))

(* C1 as stated: every message status, list, me and search yield is at    *)
(* most 1800 characters long.                                               *)
C1_MessagesAtMostLimit ==
    route \in Listers => \A i \in 1..Len(out) : MsgLen(out[i]) <= ChunkLimit

(* C1 amended: every message status, list, me and search yield is at most  *)
(* 1800 characters long before its last line, so a message exceeds 1800    *)
(* characters by less than one movie line; the messages that are not       *)
(* listings are at most 1800 characters long.                               *)
C1_MessagesAtMostLimitPlusLine ==
    route \in Listers =>
        \A i \in 1..Len(out) :
            IF out[i].kind = "listing"
            THEN \/ out[i].lines = <<>>
                 \/ TextLen(SubSeq(out[i].lines, 1, Len(out[i].lines) - 1)) <= ChunkLimit
            ELSE MsgLen(out[i]) <= ChunkLimit

C1_Witness ==
    /\ route \in Listers
    /\ \E i \in 1..Len(out) : MsgLen(out[i]) > ChunkLimit

(* C2: with title words, _filter_movies returns min(10, number of movies)  *)
(* movies of the library, in non-increasing order of score, no movie left  *)
(* out scoring strictly higher than one returned, and each fuzzy_score is  *)
(* the score of the movie's title against the joined words.                 *)
C2_FilterRanksTopTen ==
    (route \in {"list", "me"} /\ args # <<>> /\ error = NoError) =>
        /\ Len(all_movies) = Min(TopN, Len(movies))
        /\ \A i \in 1..Len(all_movies) :
              /\ all_movies[i].fuzzy_score = Score(all_movies[i])
              /\ \E j \in 1..Len(movies) :
                    /\ movies[j].tmdbId = all_movies[i].tmdbId
                    /\ movies[j].title = all_movies[i].title
                    /\ movies[j].tags = all_movies[i].tags
        /\ \A i, j \in 1..Len(all_movies) :
              /\ i < j => all_movies[i].fuzzy_score >= all_movies[j].fuzzy_score
              /\ i # j => all_movies[i].tmdbId # all_movies[j].tmdbId
        /\ \A j \in 1..Len(movies) :
              movies[j].tmdbId \notin Ids(all_movies) =>
                  \A i \in 1..Len(all_movies) : Score(movies[j]) <= all_movies[i].fuzzy_score

C2_Witness ==
    /\ route = "list" /\ args # <<>>
    /\ Len(movies) > TopN
    /\ \E i, j \in 1..Len(all_movies) : all_movies[i].fuzzy_score > all_movies[j].fuzzy_score
    /\ \E j \in 1..Len(movies) : movies[j].tmdbId \notin Ids(all_movies)

(* C3 as stated: after me, tag, untag or add the remote service holds a    *)
(* tag labelled with the user's name, and the command used its id.          *)
C3_EveryIssuerHasTag ==
    route \in {"me", "tag", "untag", "add"} => HasTag(tags, user, tag_id)

(* C3 amended: after me, tag, untag, or an add whose catalog lookup        *)
(* returned exactly one movie, the remote service holds a tag labelled     *)
(* with the user's name, the command used the id of that tag, no two tags  *)
(* share a label and no label was created twice.  (An add without an id,   *)
(* or with an id the lookup finds nothing for, returns before the tag is   *)
(* looked up.)                                                              *)
C3_LookupFindsOrCreatesOnce ==
    /\ (\/ route \in {"me", "tag", "untag"}
        \/ route = "add" /\ args # <<>> /\ ~lookup.none /\ Len(lookup.list) = 1)
       => HasTag(tags, user, tag_id)
    /\ \A i, j \in 1..Len(tags) : tags[i].label = tags[j].label => i = j
    /\ \A l \in Users : created[l] <= 1

C3_Witness ==
    /\ route = "add" /\ user = "bob" /\ created["bob"] = 1 /\ created["alice"] = 1
    /\ HasTag(tags, "bob", tag_id)

(* C4: add with the id of a movie already in the library yields exactly    *)
(* the message "Movie <title> (<year>) is already added", raises nothing,  *)
(* and leaves the movies and their tag sets as they were.                   *)
C4_AlreadyAddedIsCaught ==
    (route = "add" /\ args # <<>> /\ ParseId(args[1]) \in Ids(pre.movies)) =>
        /\ out = <<Text("already_added",
                        <<Title(ParseId(args[1])), Year(ParseId(args[1]))>>, "")>>
        /\ error = NoError
        /\ movies = pre.movies

C4_Witness ==
    /\ route = "add" /\ args # <<>> /\ ParseId(args[1]) \in Ids(pre.movies)
    /\ \E i \in 1..Len(movies) : movies[i].tags # {}

Usage ==
    [tag |-> "tag_usage", untag |-> "untag_usage", search |-> "search_usage",
     add |-> "add_usage"]

(* C5: tag, untag, search or add without an argument sends the one         *)
(* instructive reply and leaves the movies, their tag sets and the tag     *)
(* list as they were.                                                       *)
C5_MissingArgumentOnlyReplies ==
    (route \in {"tag", "untag", "search", "add"} /\ args = <<>>) =>
        /\ out = <<Text(Usage[route], <<>>, "")>>
        /\ movies = pre.movies
        /\ tags = pre.tags

(* C6: me with title words lists only movies carrying the caller's tag,    *)
(* and lists every movie that is among the 10 best-scoring matches of the  *)
(* caller's tagged movies.                                                  *)
C6_MeListsBestOfOwnMovies ==
    (route = "me" /\ args # <<>> /\ error = NoError) =>
        LET listed == {l.tmdbId : l \in Range(ConcatLines(out))}
            mine == SelectIdx(movies, {i \in 1..Len(movies) : tag_id \in movies[i].tags})
            better(m) == {i \in 1..Len(mine) : Score(mine[i]) > Score(m)}
        IN  /\ listed \subseteq Ids(mine)
            /\ \A i \in 1..Len(mine) :
                  Cardinality(better(mine[i])) + i <= TopN => mine[i].tmdbId \in listed

(* C7: past the channel restriction, a sub-command word outside the eight  *)
(* known ones gets the one reply "Unknown command <word>" and no remote    *)
(* call; a known word never gets that reply; no word is handled as status. *)
C7_UnknownCommandReply ==
    LET known == {"status", "list", "me", "tag", "untag", "search", "add", "help"}
    IN  route \notin {"start", "ignored"} =>
            /\ (cmd # NoCmd /\ cmd \notin known) =>
                   /\ out = <<Text("unknown", <<>>, cmd)>>
                   /\ calls = 0
                   /\ movies = pre.movies /\ tags = pre.tags
            /\ cmd \in known =>
                   /\ route = cmd
                   /\ \A i \in 1..Len(out) : out[i].kind # "unknown"
            /\ cmd = NoCmd =>
                   /\ route = "status"
                   /\ out # <<>> /\ out[1].kind = "status" /\ calls = 1

C7_Witness == route = "unknown" /\ cmd = "Status" /\ out = <<Text("unknown", <<>>, "Status")>>

(* C8: tag <id> answered "Tagged ..." and followed at once by untag <id>   *)
(* from the same user is answered "Untagged ..." and leaves every movie's  *)
(* tag set as it was before the tag; in between only that movie differed,  *)
(* by the caller's tag.                                                     *)
C8_TagThenUntagRestores ==
    (prev # NoPrev /\ route = "untag" /\ user = prev.user /\ args = prev.args) =>
        /\ out = <<Text("untagged", <<Title(ParseId(args[1])), Year(ParseId(args[1]))>>, "")>>
        /\ movies = prev.movies
        /\ Len(pre.movies) = Len(movies)
        /\ \A i \in 1..Len(movies) :
              IF movies[i].tmdbId = ParseId(args[1])
              THEN /\ tag_id \notin movies[i].tags
                   /\ pre.movies[i].tags = movies[i].tags \cup {tag_id}
              ELSE pre.movies[i] = movies[i]

C8_Witness ==
    /\ prev # NoPrev /\ route = "untag" /\ user = prev.user /\ args = prev.args
    /\ \E i \in 1..Len(movies) : movies[i].tmdbId = ParseId(args[1]) /\ movies[i].tags # {}

(* C9: list without title words: the messages, concatenated, are the       *)
(* lines of all movies of the library, one line each, in title order; no   *)
(* message but the last is empty.                                           *)
C9_ChunkingLosesNothing ==
    (route = "list" /\ args = <<>>) =>
        LET all == ConcatLines(out)
        IN  /\ \A i \in 1..Len(out) : out[i].kind = "listing"
            /\ Len(all) = Len(movies)
            /\ \A j \in 1..Len(movies) :
                  Cardinality({i \in 1..Len(all) : all[i] = Line(movies[j])}) = 1
            /\ \A i, j \in 1..Len(all) : i < j => all[i].title <= all[j].title
            /\ \A i \in 1..Len(out) - 1 : out[i].lines # <<>>

C9_Witness ==
    /\ route = "list" /\ args = <<>>
    /\ Len(out) = 3 /\ out[3].lines = <<>>
    /\ Len(out[1].lines) + Len(out[2].lines) = Len(movies)

(* C10: add with an id the catalog lookup finds nothing for (None or an    *)
(* empty list) yields the one message "No movie found for TMDB ID <id>",   *)
(* raises nothing, adds no movie and creates no tag.                        *)
C10_NothingFoundReply ==
    (route = "add" /\ args # <<>> /\ (lookup.none \/ lookup.list = <<>>)) =>
        /\ out = <<Text("add_none", <<>>, args[1])>>
        /\ error = NoError
        /\ movies = pre.movies
        /\ tags = pre.tags
====
